---- MODULE Spec2Model ----
(***************************************************************************)
(* A model of shovel: the batch pipeline of src/shovel/cli.py              *)
(* (run_pipeline, process_instance, _filter_instances,                     *)
(* _load_existing_results) and the agent session of src/shovel/agent.py.   *)
(*                                                                         *)
(* Five specifications share the module:                                   *)
(*   Spec        the pipeline: runs of run_pipeline over one dataset and   *)
(*               one output file, with the process killed at any instant   *)
(*               and the pipeline run again;                               *)
(*   SpecFilter  _filter_instances as a function of its inputs;            *)
(*   SpecAgent   one session of run_agent, event by event;                 *)
(*   SpecTask    one process_instance task, clone_repo's git commands one  *)
(*               by one;                                                   *)
(*   SpecProgress  the pipeline with every repository preparation and      *)
(*               every session ending in a result, under the fairness of   *)
(*               the event loop.                                           *)
(*                                                                         *)
(* Conventions.  An optional value (Python's None or a value) is a set     *)
(* with at most one element: {} is None, {v} is v.  A Python dict is the   *)
(* sequence of its <<key, value>> pairs in insertion order.  The dataset   *)
(* is keyed by instance_id (utils.load_instances builds it so from a JSON  *)
(* array, a JSONL file and a dataset-hub collection).                      *)
(***************************************************************************)
EXTENDS Integers, Sequences, FiniteSets, TLC

\* ------------------------------------------------------------------ bounds

\* Instances of the dataset the pipeline runs over.
NumInst == 2
\* The largest concurrency bound (--max-workers) a run is started with.
MaxW == 2
\* Keys of the id sequence given to _filter_instances.
MaxKeys == 5
\* start and end given to _filter_instances range over -IdxBelow..MaxKeys + 1.
IdxBelow == 2
\* Events the agent runtime delivers in one session before its stream ends.
MaxEvents == 3

\* ------------------------------------------------------- optional values

NoneVal == {}

Some(v) == {v}

IsNone(o) == o = {}

Get(o) == CHOOSE v \in o : TRUE

\* ---------------------------------------------------------- Python dicts

RECURSIVE DictKeys(_)
\* The keys of a dict, in insertion order.
DictKeys(d) == IF d = <<>> THEN <<>> ELSE <<d[1][1]>> \o DictKeys(Tail(d))

KeySet(d) == {d[n][1] : n \in 1..Len(d)}

DictGet(d, k) == d[CHOOSE n \in 1..Len(d) : d[n][1] = k][2]

\* d[k] = v: a present key keeps its place and takes the value, a new key is
\* appended.
DictSet(d, k, v) ==
    IF k \in KeySet(d)
    THEN [n \in 1..Len(d) |-> IF d[n][1] = k THEN <<k, v>> ELSE d[n]]
    ELSE Append(d, <<k, v>>)

RECURSIVE SelectKeys(_, _)
\* {k: v for k, v in d.items() if k in keep}
SelectKeys(d, keep) ==
    IF d = <<>> THEN <<>>
    ELSE (IF d[1][1] \in keep THEN <<d[1]>> ELSE <<>>) \o SelectKeys(Tail(d), keep)

\* ---------------------------------------------------------- Python slices

Min(a, b) == IF a < b THEN a ELSE b

Max(a, b) == IF a > b THEN a ELSE b

\* A slice index as Python normalises it: a negative index counts from the
\* end, and the result is clamped to 0..n.
SliceIndex(i, n) == IF i < 0 THEN Max(i + n, 0) ELSE Min(i, n)

\* s[lo:hi], with 0-based lo and hi.
PySlice(s, lo, hi) ==
    LET a == SliceIndex(lo, Len(s))
        b == SliceIndex(hi, Len(s))
    IN  IF a < b THEN SubSeq(s, a + 1, b) ELSE <<>>

\* ------------------------------------------------------ _filter_instances

\* The filter part of a RunConfig: instance_ids, start and end, each optional.
FilterCfg(ids, start, end) == [instance_ids |-> ids, start |-> start, end |-> end]

\* cli.py 79-82: all_keys[start_idx:end_idx].
SliceKeys(all_keys, c) ==
    LET start_idx == IF ~IsNone(c.start) THEN Get(c.start) - 1 ELSE 0
        end_idx   == IF ~IsNone(c.end) THEN Get(c.end) ELSE Len(all_keys)
    IN  PySlice(all_keys, start_idx, end_idx)

\* The slice taken over the unfiltered keys, the allowlist applied after it.
FilterInstancesSliceFirst(instances, c) ==
    LET sliced ==
            IF ~IsNone(c.start) \/ ~IsNone(c.end)
            THEN SelectKeys(instances,
                            {SliceKeys(DictKeys(instances), c)[n] :
                                n \in 1..Len(SliceKeys(DictKeys(instances), c))})
            ELSE instances
    IN  IF ~IsNone(c.instance_ids) /\ Get(c.instance_ids) # {}
        THEN SelectKeys(sliced, Get(c.instance_ids))
        ELSE sliced

\* cli.py 70-90.  `if cfg.instance_ids:` is false for None and for an empty
\* list; the slice is taken over the keys the allowlist left.
FilterInstances(instances, c) ==
    LET selected ==
            IF ~IsNone(c.instance_ids) /\ Get(c.instance_ids) # {}
            THEN SelectKeys(instances, Get(c.instance_ids))
            ELSE instances
    IN  IF ~IsNone(c.start) \/ ~IsNone(c.end)
        THEN LET selected_keys == SliceKeys(DictKeys(selected), c)
             IN  [n \in 1..Len(selected_keys) |->
                    <<selected_keys[n], DictGet(selected, selected_keys[n])>>]
        ELSE selected

\* --------------------------------------------------------------- state

VARIABLES
    \* The pipeline (Spec).
    dataset,      \* load_instances' dict: <<instance_id, instance>> pairs
    outfile,      \* cfg.output on disk: [exists, complete, entries]
    pipe,         \* where run_pipeline is
    cfg,          \* the RunConfig of the current run
    existing,     \* what _load_existing_results returned to the current run
    pc,           \* per instance: where its process_instance task is
    res,          \* per instance: the result its task returned (optional)
    sem,          \* the semaphore's value
    doneq,        \* as_completed's queue: finished tasks, in completion order
    all_results,  \* run_pipeline's all_results dict
    completed,    \* run_pipeline's completed counter
    writes,       \* times the current run opened the output file for writing
    \* _filter_instances alone (SpecFilter).
    f_instances, f_cfg, f_selected,
    \* One session of run_agent (SpecAgent).
    a_env,        \* what the session runs in: the instance, the SDK, the log dir
    a_pc,         \* where run_agent is
    a_events,     \* events the runtime has delivered
    a_message,    \* the message the loop has in hand
    a_log,        \* the trajectory log: [state, records]
    a_result,     \* result_message (optional)
    a_text,       \* last_assistant_text (optional)
    a_turns,      \* turn_count
    a_ret,        \* what run_agent did: [kind, value]
    \* One process_instance task (SpecTask).
    t_instance,   \* the instance the task is given
    t_dir,        \* the working copy at repo_dir: [exists, head, untracked]
    t_pc,         \* where the task is
    t_git,        \* the commands clone_repo ran, with their outcomes
    t_repo_dir,   \* process_instance's repo_dir
    t_slot,       \* whether the task holds a slot of the semaphore
    t_sessions,   \* calls of run_agent the task made
    t_ret         \* what process_instance did: [kind, value]

pipeVars == <<dataset, outfile, pipe, cfg, existing, pc, res, sem, doneq,
              all_results, completed, writes>>

filterVars == <<f_instances, f_cfg, f_selected>>

agentVars == <<a_env, a_pc, a_events, a_message, a_log, a_result, a_text, a_turns,
              a_ret>>

taskVars == <<t_instance, t_dir, t_pc, t_git, t_repo_dir, t_slot, t_sessions, t_ret>>

vars == <<pipeVars, filterVars, agentVars, taskVars>>

\* ------------------------------------------------------- the output file

NoFile == [exists |-> FALSE, complete |-> FALSE, entries |-> <<>>]

\* open(cfg.output, "w"): the file exists and is empty, whatever it held.
Truncated == [exists |-> TRUE, complete |-> FALSE, entries |-> <<>>]

\* json.dump(all_results, f): one "key": value member per item, in the dict's
\* order.
JsonDump(d) == [n \in 1..Len(d) |-> [key |-> d[n][1], value |-> d[n][2]]]

RECURSIVE JsonLoadInto(_, _)
\* json.load's object hook: the members set one by one, a repeated key taking
\* the last value.
JsonLoadInto(members, acc) ==
    IF members = <<>> THEN acc
    ELSE JsonLoadInto(Tail(members), DictSet(acc, members[1].key, members[1].value))

\* json.load(f) of a complete file.
JsonLoad(members) == JsonLoadInto(members, <<>>)

\* ------------------------------------------------------------- instances

InstIds == 1..NumInst

\* An instance: its id, and whether it has the fields clone_repo and
\* build_user_prompt index (repo, base_commit).
Instance(id, wf) == [instance_id |-> id, wellformed |-> wf]

\* The datasets the pipeline runs over: the ids in order, at most one instance
\* malformed (one is enough to make a task raise).
Datasets ==
    {[n \in InstIds |-> <<n, Instance(n, n \notin bad)>>] :
        bad \in {b \in SUBSET InstIds : \A x, y \in b : x = y}}

\* The allowlists and slices the pipeline's runs are started with.
PipeFilters ==
    { FilterCfg(NoneVal, NoneVal, NoneVal),
      FilterCfg(NoneVal, Some(2), NoneVal),
      FilterCfg(Some({1}), Some(2), Some(NumInst)) }

RunConfigs ==
    {[instance_ids |-> g.instance_ids, start |-> g.start, end |-> g.end,
      resume |-> r, max_workers |-> w] :
        g \in PipeFilters, r \in BOOLEAN, w \in 1..MaxW}

\* ------------------------------------------------- run_agent: the values

\* JSON values as json.loads types them.  A string is the sequence of its
\* tokens, a list the sequence of its elements, a dict the sequence of its keys.
Str(tokens) == [t |-> "str", v |-> tokens]

List(elems) == [t |-> "list", v |-> elems]

Dict(keys) == [t |-> "dict", v |-> keys]

Null == [t |-> "null", v |-> <<>>]

Elems(x) == {x.v[n] : n \in 1..Len(x.v)}

\* The completion marker OMNIGRIL_EXIT_CODE and the required setup script.
Marker == "OMNIGRIL_EXIT_CODE"

SetupKey == "setup_repo.sh"

\* `needle in x`: substring of a string, element of a list, key of a dict;
\* TypeError for a value that is no container (None, a number).
PyIn(needle, x) ==
    IF x.t \in {"str", "list", "dict"}
    THEN (IF needle \in Elems(x) THEN "yes" ELSE "no")
    ELSE "TypeError"

RECURSIVE RStrip(_)
\* str.rstrip(): trailing whitespace removed.
RStrip(tokens) ==
    IF tokens # <<>> /\ tokens[Len(tokens)] = "\n"
    THEN RStrip(SubSeq(tokens, 1, Len(tokens) - 1))
    ELSE tokens

\* agent.py 312: '\nrc=$?\necho "OMNIGRIL_EXIT_CODE=$rc"\n'
Snippet == <<"\n", "rc=$?", "\n", "echo", Marker, "\n">>

\* The records a final assistant text may hold.
GoodScript == Str(<<"run_tests", Marker, "\n">>)

BareScript == Str(<<"run_tests", "\n", "\n">>)

GoodSetup == Dict(<<SetupKey>>)

Dockerfile == Str(<<"FROM">>)

\* A record that has what the validation asks for.
RecOk ==
    [dockerfile |-> Dockerfile, eval_script |-> GoodScript, setup_scripts |-> GoodSetup]

\* A record whose script lacks the marker.
RecAlt ==
    [dockerfile |-> Dockerfile, eval_script |-> BareScript, setup_scripts |-> GoodSetup]

\* A record whose setup_scripts is a string that names the setup script.
RecSetupText ==
    [dockerfile |-> Dockerfile, eval_script |-> GoodScript,
     setup_scripts |-> Str(<<"bash", SetupKey>>)]

OutputRecords ==
    { RecOk,
      RecAlt,
      [dockerfile |-> Dockerfile, eval_script |-> GoodScript,
       setup_scripts |-> Dict(<<"install.sh">>)],
      [eval_script |-> GoodScript, setup_scripts |-> GoodSetup],
      [dockerfile |-> Dockerfile, setup_scripts |-> GoodSetup],
      [dockerfile |-> Dockerfile, eval_script |-> GoodScript],
      [dockerfile |-> Dockerfile, eval_script |-> Null, setup_scripts |-> GoodSetup],
      [dockerfile |-> Dockerfile, eval_script |-> List(<<"run_tests">>),
       setup_scripts |-> GoodSetup],
      [dockerfile |-> Dockerfile, eval_script |-> GoodScript, setup_scripts |-> Null],
      RecSetupText,
      [dockerfile |-> Null, eval_script |-> BareScript, setup_scripts |-> GoodSetup,
       instance_id |-> Str(<<"other">>)] }

\* A text is a sequence of segments.  A segment is prose without braces, a
\* fenced ```json block, such a block inside the SHOVEL_OUTPUT_JSON tag, a
\* brace-delimited object in the running text, or a JSON value that is no
\* object (a number, a list).  The object of a block or of the running text
\* either parses to a record (ok) or does not.
Segment(kind, ok, rec) == [seg |-> kind, ok |-> ok, rec |-> rec]

Prose == Segment("prose", FALSE, <<>>)

Scalar == Segment("value", FALSE, <<>>)

Wrapped(r) == Segment("wrapped", TRUE, r)

Fenced(r) == Segment("fenced", TRUE, r)

Object(r) == Segment("object", TRUE, r)

Broken(kind) == Segment(kind, FALSE, <<>>)

\* The texts of a free-text block: every record in the tagged block, and the
\* shapes that tell the extraction strategies apart.
BlockTexts ==
    {<<Wrapped(r)>> : r \in OutputRecords}
        \cup { <<Prose>>,
               <<Scalar>>,
               <<Object(RecOk)>>,
               <<Fenced(RecAlt)>>,
               <<Prose, Object(RecOk)>>,
               <<Fenced(RecAlt), Wrapped(RecOk)>>,
               <<Broken("wrapped"), Fenced(RecOk)>>,
               <<Object(RecAlt), Fenced(RecOk)>>,
               <<Broken("wrapped"), Object(RecAlt), Fenced(RecOk)>>,
               <<Broken("object"), Object(RecAlt)>>,
               <<Broken("fenced")>> }

\* ------------------------------------- _parse_output_from_final_assistant_text

RECURSIVE FirstOf(_, _)
\* re.search: the first segment of one of the kinds, if any.
FirstOf(text, kinds) ==
    IF text = <<>> THEN NoneVal
    ELSE IF text[1].seg \in kinds THEN Some(text[1])
    ELSE FirstOf(Tail(text), kinds)

\* json.loads of a candidate: "dict" with the record, "other" for a value
\* that is no dict, "error" when it does not parse.
Loads(parse, rec) == [parse |-> parse, rec |-> rec]

LoadsSegment(sg) ==
    IF sg.ok THEN Loads("dict", sg.rec)
    ELSE IF sg.seg = "value" THEN Loads("other", <<>>)
    ELSE Loads("error", <<>>)

\* json.loads(text.strip()): the whole text parses only when it is one object
\* or one value and nothing else.
LoadsWhole(text) ==
    IF Len(text) = 1 /\ text[1].seg \in {"object", "value"}
    THEN LoadsSegment(text[1])
    ELSE Loads("error", <<>>)

\* The first fenced block is tried before the tagged one.
CandidatesFencedFirst(text) ==
    LET marker_match == FirstOf(text, {"wrapped"})
        fenced_match == FirstOf(text, {"wrapped", "fenced"})
    IN  (IF ~IsNone(fenced_match) THEN <<LoadsSegment(Get(fenced_match))>> ELSE <<>>)
            \o (IF ~IsNone(marker_match) THEN <<LoadsSegment(Get(marker_match))>> ELSE <<>>)
            \o <<LoadsWhole(text)>>

\* agent.py 161-174: the candidates, in order.
Candidates(text) ==
    LET marker_match == FirstOf(text, {"wrapped"})
        fenced_match == FirstOf(text, {"wrapped", "fenced"})
    IN  (IF ~IsNone(marker_match) THEN <<LoadsSegment(Get(marker_match))>> ELSE <<>>)
            \o (IF ~IsNone(fenced_match) THEN <<LoadsSegment(Get(fenced_match))>> ELSE <<>>)
            \o <<LoadsWhole(text)>>

RECURSIVE FirstDict(_)
\* agent.py 176-182 and 185-193: the first parse that is a dict.
FirstDict(parses) ==
    IF parses = <<>> THEN NoneVal
    ELSE IF parses[1].parse = "dict" THEN Some(parses[1].rec)
    ELSE FirstDict(Tail(parses))

\* agent.py 184-193: raw_decode at every opening brace, in text order.
BraceScan(text) ==
    LET braces == SelectSeq(text, LAMBDA sg : sg.seg \in {"wrapped", "fenced", "object"})
    IN  [n \in 1..Len(braces) |-> LoadsSegment(braces[n])]

\* agent.py 159-194.
ParseOutput(text) ==
    LET first == FirstDict(Candidates(text))
    IN  IF ~IsNone(first) THEN first ELSE FirstDict(BraceScan(text))

\* ------------------------------------------------ run_agent: after the stream

Return(kind, value) == [kind |-> kind, value |-> value]

Raised == Return("raised", <<>>)

ReturnedNone == Return("none", <<>>)

\* agent.py 309-313: the marker snippet appended to a script that lacks it.
Repair(output) ==
    [output EXCEPT !.eval_script = Str(RStrip(output.eval_script.v) \o Snippet)]

\* agent.py 295-313 and 332: the required keys, the setup script, the marker.
\* `in` on a value that is no container raises TypeError, rstrip on a value
\* that is no string AttributeError; neither is caught.
Validate(output) ==
    IF {"dockerfile", "eval_script", "setup_scripts"} \ DOMAIN output # {}
    THEN ReturnedNone
    ELSE LET has_setup == PyIn(SetupKey, output.setup_scripts)
             has_marker == PyIn(Marker, output.eval_script)
         IN  IF has_setup = "TypeError" THEN Raised
             ELSE IF has_setup = "no" THEN ReturnedNone
             ELSE IF has_marker = "TypeError" THEN Raised
             ELSE IF has_marker = "yes" THEN Return("config", output)
             ELSE IF output.eval_script.t = "str" THEN Return("config", Repair(output))
             ELSE Raised

\* An error-flagged result is treated as any other result.
ResultIsErrorNever(result_message) == FALSE

\* agent.py 282-283: a result message arrived and is flagged as an error.
ResultIsError(result_message) ==
    ~IsNone(result_message) /\ Get(result_message).is_error

\* agent.py 281-332: an error result fails; otherwise the last assistant text
\* is parsed and the record validated.
AfterStream(result_message, text) ==
    IF ResultIsError(result_message) THEN ReturnedNone
    ELSE LET output == IF IsNone(text) THEN NoneVal ELSE ParseOutput(Get(text))
         IN  IF IsNone(output) THEN ReturnedNone ELSE Validate(Get(output))

\* ---------------------------------------------------------------- results

\* {"instance_id": instance_id} (cli.py 52, and 64-66 for an agent failure).
Placeholder(id) == [instance_id |-> id]

\* result["instance_id"] = instance_id on the dict run_agent returned.
WithInstanceId(r, id) ==
    [f \in DOMAIN r \cup {"instance_id"} |-> IF f = "instance_id" THEN id ELSE r[f]]

\* What a call of run_agent does to its caller: it returns a validated
\* configuration, returns None, or raises (agent.py 206-209 and 305-312 lie
\* outside its try).
AgentOutcomes == {Raised, ReturnedNone} \cup {Validate(r) : r \in OutputRecords}

\* The same for the tasks of a pipeline run, which does not look inside a
\* configuration: one configuration stands for all.
PipeOutcomes == {Raised, ReturnedNone, Validate(RecOk)}

\* cli.py 54-66: None becomes {}, and the instance id is set on the dict.
ProcessResult(ret, id) ==
    WithInstanceId(IF ret.kind = "none" THEN <<>> ELSE ret.value, id)

\* What clone_repo does for an instance that has its fields: a directory, or
\* None when git fails or times out.
CloneOutcomes == {"dir", "none"}

\* ------------------------------------------------------------ run_pipeline

NotScheduled == [i \in InstIds |-> "none"]

NoResults == [i \in InstIds |-> NoneVal]

\* The tasks of the current run.
Scheduled == {i \in InstIds : pc[i] # "none"}

\* Tasks inside the semaphore-guarded body.
InBody == {i \in InstIds : pc[i] \in {"clone", "agent"}}

Ended == {"no_instances", "all_processed", "load_error", "done", "aborted", "killed"}

\* The previous output is loaded whether or not resume is set.
LoadExistingResultsAlways(c, file) ==
    IF ~file.exists THEN Some(<<>>)
    ELSE IF ~file.complete THEN NoneVal
    ELSE Some(JsonLoad(file.entries))

\* cli.py 93-100.  The value is optional: empty when json.load raises on a
\* file that is not a complete JSON document.
LoadExistingResults(c, file) ==
    IF ~c.resume \/ ~file.exists THEN Some(<<>>)
    ELSE IF ~file.complete THEN NoneVal
    ELSE Some(JsonLoad(file.entries))

\* The loaded ids are not taken out: every filtered instance is processed again.
RemainingAll(instances, results) == instances

\* cli.py 116-117: the instances left once the loaded ids are taken out.
Remaining(instances, results) ==
    IF results # <<>>
    THEN SelectKeys(instances, KeySet(instances) \ KeySet(results))
    ELSE instances

\* The run goes on with an empty work set.
NoInstancesNever(instances) == FALSE

\* cli.py 110 and 119: `if not instances`.
NoInstances(instances) == instances = <<>>

\* cli.py 103-137, up to the first await: load, filter, resume, create the
\* tasks.  The pipeline is started on whatever an earlier run, ended or killed,
\* left on disk.
StartRun(c) ==
    /\ pipe \in Ended \cup {"idle"}
    /\ cfg' = c
    /\ res' = NoResults
    /\ doneq' = <<>>
    /\ completed' = 0
    /\ writes' = 0
    /\ UNCHANGED <<dataset, outfile>>
    /\ LET instances == FilterInstances(dataset, c)
           loaded    == LoadExistingResults(c, outfile)
       IN  IF NoInstances(instances)
           THEN /\ pipe' = "no_instances"
                /\ existing' = <<>>
                /\ all_results' = <<>>
                /\ pc' = NotScheduled
                /\ sem' = 0
           ELSE IF IsNone(loaded)
           THEN /\ pipe' = "load_error"
                /\ existing' = <<>>
                /\ all_results' = <<>>
                /\ pc' = NotScheduled
                /\ sem' = 0
           ELSE LET todo == Remaining(instances, Get(loaded))
                IN  /\ existing' = Get(loaded)
                    /\ all_results' = Get(loaded)
                    /\ IF NoInstances(todo)
                       THEN /\ pipe' = "all_processed"
                            /\ pc' = NotScheduled
                            /\ sem' = 0
                       ELSE /\ pipe' = "running"
                            /\ pc' = [i \in InstIds |->
                                        IF i \in KeySet(todo) THEN "waiting" ELSE "none"]
                            /\ sem' = c.max_workers

\* ---------------------------------------------------------- process_instance

\* A task leaves the body and keeps its slot.
FinishKeepsSlot(i, state, result) ==
    /\ pc' = [pc EXCEPT ![i] = state]
    /\ res' = [res EXCEPT ![i] = result]
    /\ sem' = sem
    /\ doneq' = Append(doneq, i)

\* Leaving `async with semaphore`, by return or by exception, releases the
\* slot; the finished task joins as_completed's queue.
Finish(i, state, result) ==
    /\ pc' = [pc EXCEPT ![i] = state]
    /\ res' = [res EXCEPT ![i] = result]
    /\ sem' = sem + 1
    /\ doneq' = Append(doneq, i)

\* A task enters the body although the semaphore is exhausted.
CanAcquireAlways(i) == pc[i] = "waiting"

\* semaphore.acquire(): a slot is free, and no task created earlier is still
\* waiting (the tasks reach the gate in creation order and waiters are woken
\* first in, first out).
CanAcquire(i) ==
    /\ pc[i] = "waiting"
    /\ sem > 0
    /\ \A j \in InstIds : j < i => pc[j] # "waiting"

\* cli.py 47-49: past the gate, clone_repo is handed to the executor.
Admit(i) ==
    /\ pipe = "running"
    /\ CanAcquire(i)
    /\ pc' = [pc EXCEPT ![i] = "clone"]
    /\ sem' = sem - 1
    /\ UNCHANGED <<dataset, outfile, pipe, cfg, existing, res, doneq,
                   all_results, completed, writes>>

\* cli.py 49-52: clone_repo ends.  It raises KeyError on an instance without
\* repo or base_commit (utils.py 45-46); with no directory the task returns
\* the placeholder.
CloneDone(i, outcome) ==
    /\ pipe = "running"
    /\ pc[i] = "clone"
    /\ LET inst == DictGet(dataset, i)
       IN  IF ~inst.wellformed
           THEN Finish(i, "raised", NoneVal)
           ELSE IF outcome = "none"
           THEN Finish(i, "finished", Some(Placeholder(inst.instance_id)))
           ELSE /\ pc' = [pc EXCEPT ![i] = "agent"]
                /\ UNCHANGED <<res, sem, doneq>>
    /\ UNCHANGED <<dataset, outfile, pipe, cfg, existing, all_results,
                   completed, writes>>

\* cli.py 54-67: run_agent ends.
AgentDone(i, outcome) ==
    /\ pipe = "running"
    /\ pc[i] = "agent"
    /\ LET id == DictGet(dataset, i).instance_id
       IN  IF outcome.kind = "raised"
           THEN Finish(i, "raised", NoneVal)
           ELSE Finish(i, "finished", Some(ProcessResult(outcome, id)))
    /\ UNCHANGED <<dataset, outfile, pipe, cfg, existing, all_results,
                   completed, writes>>

\* ------------------------------------------------- the collector loop

\* The file is opened only once every task is collected: one write per run.
OpensFileAtEnd(n) == n = Cardinality(Scheduled)

\* cli.py 144-145: every stored result opens the file.
OpensFile(n) == TRUE

\* Only a result with more than its instance_id is stored: placeholders are
\* dropped.
ResultIsConfig(r) == ~IsNone(r) /\ DOMAIN Get(r) # {"instance_id"}

\* cli.py 142: `if result is not None`.
ResultIsNotNone(r) == ~IsNone(r)

\* The finished task that was created first is awaited first.
NextSubmitted(q) == CHOOSE i \in {q[n] : n \in 1..Len(q)} : \A n \in 1..Len(q) : i <= q[n]

\* cli.py 139-140: as_completed yields the tasks in the order they finished.
NextCompleted(q) == Head(q)

\* cli.py 140: as_completed is exhausted once every task has been awaited.
LoopEnds(taskpc) == \A i \in InstIds : taskpc[i] \in {"none", "collected"}

\* cli.py 140-145: the next completed task is awaited.  A task that raised
\* re-raises here and ends run_pipeline, asyncio.run cancelling the tasks
\* still pending.  Otherwise the result is stored and the output file opened
\* for writing, which truncates it.
Collect ==
    /\ pipe = "running"
    /\ doneq # <<>>
    /\ LET i == NextCompleted(doneq)
       IN  IF pc[i] = "raised"
           THEN /\ pipe' = "aborted"
                /\ pc' = [j \in InstIds |->
                            IF pc[j] \in {"waiting", "clone", "agent"}
                            THEN "cancelled" ELSE pc[j]]
                /\ doneq' = SelectSeq(doneq, LAMBDA j : j # i)
                /\ UNCHANGED <<outfile, all_results, completed, writes>>
           ELSE /\ pc' = [pc EXCEPT ![i] = "collected"]
                /\ doneq' = SelectSeq(doneq, LAMBDA j : j # i)
                /\ IF ResultIsNotNone(res[i])
                   THEN /\ all_results' = DictSet(all_results, i, Get(res[i]))
                        /\ completed' = completed + 1
                   ELSE UNCHANGED <<all_results, completed>>
                /\ IF ResultIsNotNone(res[i]) /\ OpensFile(completed + 1)
                   THEN /\ pipe' = "writing"
                        /\ outfile' = Truncated
                        /\ writes' = writes + 1
                   ELSE /\ pipe' = IF LoopEnds(pc') THEN "done" ELSE "running"
                        /\ UNCHANGED <<outfile, writes>>
    /\ UNCHANGED <<dataset, cfg, existing, res, sem>>

\* cli.py 146: json.dump reaches the disk a piece at a time.
WriteChunk ==
    /\ pipe = "writing"
    /\ Len(outfile.entries) < Len(all_results)
    /\ outfile' = [outfile EXCEPT
                     !.entries = SubSeq(JsonDump(all_results), 1, Len(outfile.entries) + 1)]
    /\ UNCHANGED <<dataset, pipe, cfg, existing, pc, res, sem, doneq,
                   all_results, completed, writes>>

\* cli.py 145-155: the file is closed, complete; the loop goes on to the next
\* completion, or ends when every task has been collected.
WriteClose ==
    /\ pipe = "writing"
    /\ Len(outfile.entries) = Len(all_results)
    /\ outfile' = [outfile EXCEPT !.complete = TRUE]
    /\ pipe' = IF LoopEnds(pc) THEN "done" ELSE "running"
    /\ UNCHANGED <<dataset, cfg, existing, pc, res, sem, doneq,
                   all_results, completed, writes>>

\* The process is killed: at any instant of a run, a write included.  Its
\* memory is gone; the disk stays as it is.
Kill ==
    /\ pipe \in {"running", "writing"}
    /\ pipe' = "killed"
    /\ pc' = NotScheduled
    /\ res' = NoResults
    /\ sem' = 0
    /\ doneq' = <<>>
    /\ all_results' = <<>>
    /\ completed' = 0
    /\ writes' = 0
    /\ existing' = <<>>
    /\ UNCHANGED <<dataset, outfile, cfg>>

\* ------------------------------------------------------- the pipeline spec

NoCfg == [instance_ids |-> NoneVal, start |-> NoneVal, end |-> NoneVal,
          resume |-> FALSE, max_workers |-> 1]

FilterIdle ==
    /\ f_instances = <<>>
    /\ f_cfg = FilterCfg(NoneVal, NoneVal, NoneVal)
    /\ f_selected = NoneVal

NoLog == [state |-> "none", records |-> <<>>]

Pending == [kind |-> "pending", value |-> <<>>]

\* No message has been delivered yet.
NoMessage == [kind |-> "none", content |-> <<>>, is_error |-> FALSE]

AgentIdle ==
    /\ a_env = [instance |-> Instance(1, TRUE), sdk |-> TRUE, log |-> "no_log_dir"]
    /\ a_pc = "idle"
    /\ a_events = <<>>
    /\ a_message = NoMessage
    /\ a_log = NoLog
    /\ a_result = NoneVal
    /\ a_text = NoneVal
    /\ a_turns = 0
    /\ a_ret = Pending

\* No directory at repo_dir.
Absent == [exists |-> FALSE, head |-> "none", untracked |-> FALSE]

TaskIdle ==
    /\ t_instance = Instance(1, TRUE)
    /\ t_dir = Absent
    /\ t_pc = "idle"
    /\ t_git = <<>>
    /\ t_repo_dir = "unbound"
    /\ t_slot = FALSE
    /\ t_sessions = 0
    /\ t_ret = Pending

PipeIdle ==
    /\ outfile = NoFile
    /\ pipe = "idle"
    /\ cfg = NoCfg
    /\ existing = <<>>
    /\ pc = NotScheduled
    /\ res = NoResults
    /\ sem = 0
    /\ doneq = <<>>
    /\ all_results = <<>>
    /\ completed = 0
    /\ writes = 0

Init ==
    /\ dataset \in Datasets
    /\ PipeIdle
    /\ FilterIdle
    /\ AgentIdle
    /\ TaskIdle

Next ==
    \/ \E c \in RunConfigs : StartRun(c) /\ UNCHANGED <<filterVars, agentVars, taskVars>>
    \/ \E i \in InstIds : Admit(i) /\ UNCHANGED <<filterVars, agentVars, taskVars>>
    \/ \E i \in InstIds, o \in CloneOutcomes :
          CloneDone(i, o) /\ UNCHANGED <<filterVars, agentVars, taskVars>>
    \/ \E i \in InstIds, o \in PipeOutcomes :
          AgentDone(i, o) /\ UNCHANGED <<filterVars, agentVars, taskVars>>
    \/ Collect /\ UNCHANGED <<filterVars, agentVars, taskVars>>
    \/ WriteChunk /\ UNCHANGED <<filterVars, agentVars, taskVars>>
    \/ WriteClose /\ UNCHANGED <<filterVars, agentVars, taskVars>>
    \/ Kill /\ UNCHANGED <<filterVars, agentVars, taskVars>>

Spec == Init /\ [][Next]_vars

\* --------------------------------------------- _filter_instances alone

KeyIds == 1..MaxKeys

\* The id sequences the filter is given: the first n ids, in ascending and in
\* descending order of insertion.
KeySeqs ==
    {[p \in 1..n |-> p] : n \in 0..MaxKeys}
        \cup {[p \in 1..n |-> n + 1 - p] : n \in 0..MaxKeys}

InstancesOf(keys) == [p \in 1..Len(keys) |-> <<keys[p], Instance(keys[p], TRUE)>>]

\* --instance-ids takes one id or more (nargs="+"), --start and --end any
\* integer (type=int).
FilterCfgs ==
    {FilterCfg(ids, st, en) :
        ids \in {NoneVal} \cup {Some(a) : a \in SUBSET KeyIds \ {{}}},
        st \in {NoneVal} \cup {Some(n) : n \in -IdxBelow..MaxKeys + 1},
        en \in {NoneVal} \cup {Some(n) : n \in -IdxBelow..MaxKeys + 1}}

ApplyFilter ==
    /\ IsNone(f_selected)
    /\ f_selected' = Some(FilterInstances(f_instances, f_cfg))
    /\ UNCHANGED <<f_instances, f_cfg>>

InitFilter ==
    /\ f_instances \in {InstancesOf(k) : k \in KeySeqs}
    /\ f_cfg \in FilterCfgs
    /\ f_selected = NoneVal
    /\ dataset = InstancesOf(<<>>)
    /\ PipeIdle
    /\ AgentIdle
    /\ TaskIdle

NextFilter == ApplyFilter /\ UNCHANGED <<pipeVars, agentVars, taskVars>>

SpecFilter == InitFilter /\ [][NextFilter]_vars

\* -------------------------------------------------- run_agent: the session

\* Content blocks of an assistant turn.
TextBlock(text) == [type |-> "text", text |-> text]

ToolUseBlock == [type |-> "tool_use", text |-> <<>>]

\* The contents of an assistant turn: one tool invocation, one free text
\* (the empty text included), or several blocks.
AssistantContents ==
    {<<ToolUseBlock>>}
        \cup {<<TextBlock(t)>> : t \in BlockTexts}
        \cup {<<TextBlock(<<>>)>>}
        \cup { <<TextBlock(<<Wrapped(RecOk)>>), TextBlock(<<Prose>>)>>,
               <<TextBlock(<<Prose>>), TextBlock(<<Wrapped(RecOk)>>)>>,
               <<TextBlock(<<Fenced(RecAlt)>>), ToolUseBlock, TextBlock(<<Wrapped(RecOk)>>)>>,
               <<TextBlock(<<Wrapped(RecAlt)>>), ToolUseBlock>> }

Message(kind, content, is_error) ==
    [kind |-> kind, content |-> content, is_error |-> is_error]

\* What the runtime may deliver before the result: the SDK's message classes
\* and a message of a class the program does not know.
StreamMessages ==
    {Message("assistant", c, FALSE) : c \in AssistantContents}
        \cup {Message(k, <<>>, FALSE) : k \in {"user", "system", "other"}}

ResultMessages == {Message("result", <<>>, e) : e \in BOOLEAN}

\* agent.py 66-94: the log form of a message, None for an unknown class.
SerializeMessage(message, n) ==
    IF message.kind \in {"assistant", "user", "system", "result"}
    THEN Some([type |-> message.kind, n |-> n])
    ELSE NoneVal

\* agent.py 335-359: no log without a log dir or when open() fails;
\* otherwise the handle, with the header written.
OpenTrajectoryLog(log_env) ==
    IF log_env = "ok"
    THEN [state |-> "open", records |-> <<[type |-> "header", n |-> 0]>>]
    ELSE NoLog

\* agent.py 362-370.
AppendToLog(log_file, records) ==
    IF log_file.state = "open"
    THEN [log_file EXCEPT !.records = @ \o records]
    ELSE log_file

\* agent.py 373-390: the footer, then close().
CloseTrajectoryLog(log_file, n) ==
    IF log_file.state = "open"
    THEN [state |-> "closed", records |-> log_file.records \o <<[type |-> "footer", n |-> n]>>]
    ELSE log_file

\* agent.py 251-254: the TextBlocks of the turn, in order.
TextBlocks(content) == SelectSeq(content, LAMBDA block : block.type = "text")

\* The recorded text is replaced after every assistant turn.
HasTextBlocksAlways(text_blocks) == TRUE

\* agent.py 266: `if text_blocks`.
HasTextBlocks(text_blocks) == text_blocks # <<>>

RECURSIVE JoinText(_)
\* agent.py 267: "\n".join(text_blocks).
JoinText(blocks) ==
    IF blocks = <<>> THEN <<>>
    ELSE (IF blocks[1].type = "text" THEN blocks[1].text ELSE <<>>) \o JoinText(Tail(blocks))

\* agent.py 206-235: SDK symbols, prompt, options, log.  An SDK that does not
\* import, an instance the prompt cannot be built from and a log dir that
\* cannot be created raise here, outside the try.
AgentStart ==
    /\ a_pc = "idle"
    /\ IF a_env.sdk /\ a_env.instance.wellformed /\ a_env.log # "makedirs_fails"
       THEN /\ a_pc' = "streaming"
            /\ a_log' = OpenTrajectoryLog(a_env.log)
            /\ a_ret' = a_ret
       ELSE /\ a_pc' = "returned"
            /\ a_log' = a_log
            /\ a_ret' = Raised
    /\ UNCHANGED <<a_env, a_events, a_message, a_result, a_text, a_turns>>

\* agent.py 241-272: one message that is no result.
StreamEvent(message) ==
    /\ a_pc = "streaming"
    /\ Len(a_events) < MaxEvents
    /\ LET n == Len(a_events) + 1
           serialized == SerializeMessage(message, n)
           text_blocks == TextBlocks(message.content)
       IN  /\ a_events' = Append(a_events, message.kind)
           /\ a_message' = message
           /\ a_log' = IF IsNone(serialized) THEN a_log
                       ELSE AppendToLog(a_log, <<Get(serialized)>>)
           /\ a_turns' = IF message.kind = "assistant" THEN a_turns + 1 ELSE a_turns
           /\ a_text' = IF message.kind = "assistant" /\ HasTextBlocks(text_blocks)
                        THEN Some(JoinText(text_blocks))
                        ELSE a_text
    /\ UNCHANGED <<a_env, a_pc, a_result, a_ret>>

\* The loop goes on to the next message after a result message.
LeavesLoopNever(message) == FALSE

\* agent.py 246-248: `break` on a ResultMessage.
LeavesLoop(message) == message.kind = "result"

\* agent.py 242-248 and 279-332: a result message is logged and kept, and
\* ends the loop; the log is closed and the outcome computed.
ResultEvent(message) ==
    /\ a_pc = "streaming"
    /\ Len(a_events) < MaxEvents
    /\ LET n == Len(a_events) + 1
           logged == AppendToLog(a_log, <<Get(SerializeMessage(message, n))>>)
       IN  /\ a_events' = Append(a_events, message.kind)
           /\ a_message' = message
           /\ a_result' = Some(message)
           /\ IF LeavesLoop(message)
              THEN /\ a_log' = CloseTrajectoryLog(logged, n + 1)
                   /\ a_ret' = AfterStream(Some(message), a_text)
                   /\ a_pc' = "returned"
              ELSE /\ a_log' = logged
                   /\ UNCHANGED <<a_ret, a_pc>>
    /\ UNCHANGED <<a_env, a_text, a_turns>>

\* agent.py 241 and 279-332: the stream ends without a result message.
StreamEnd ==
    /\ a_pc = "streaming"
    /\ a_log' = CloseTrajectoryLog(a_log, Len(a_events) + 1)
    /\ a_ret' = AfterStream(a_result, a_text)
    /\ a_pc' = "returned"
    /\ UNCHANGED <<a_env, a_events, a_message, a_result, a_text, a_turns>>

\* The except clause falls through to the extraction of the recorded text.
AfterErrorExtracts(result_message, text) == AfterStream(result_message, text)

\* agent.py 277: `return None` in the except clause, the recorded text unused.
AfterError(result_message, text) == ReturnedNone

\* agent.py 273-277: the runtime raises while the stream is awaited; run_agent
\* returns from its except clause.
StreamError ==
    /\ a_pc = "streaming"
    /\ a_log' = CloseTrajectoryLog(
                    AppendToLog(a_log, <<[type |-> "error", n |-> Len(a_events) + 1]>>),
                    Len(a_events) + 2)
    /\ a_ret' = AfterError(a_result, a_text)
    /\ a_pc' = "caught"
    /\ UNCHANGED <<a_env, a_events, a_message, a_result, a_text, a_turns>>

\* agent.py 241: the task is cancelled while the stream is awaited (the run
\* was interrupted, or asyncio.run is ending it after another task raised).
\* CancelledError is no Exception: it passes the except clause of line 273
\* and leaves run_agent.
Cancel ==
    /\ a_pc = "streaming"
    /\ a_ret' = Return("cancelled", <<>>)
    /\ a_pc' = "cancelled"
    /\ UNCHANGED <<a_env, a_events, a_message, a_log, a_result, a_text, a_turns>>

\* What a session may run in.
LogEnvs == {"no_log_dir", "ok", "open_fails", "makedirs_fails"}

AgentEnvs ==
    [instance : {Instance(1, wf) : wf \in BOOLEAN}, sdk : BOOLEAN, log : LogEnvs]

InitAgent ==
    /\ dataset = InstancesOf(<<>>)
    /\ PipeIdle
    /\ FilterIdle
    /\ TaskIdle
    /\ a_env \in AgentEnvs
    /\ a_pc = "idle"
    /\ a_events = <<>>
    /\ a_message = NoMessage
    /\ a_log = NoLog
    /\ a_result = NoneVal
    /\ a_text = NoneVal
    /\ a_turns = 0
    /\ a_ret = Pending

NextAgent ==
    \/ AgentStart /\ UNCHANGED <<pipeVars, filterVars, taskVars>>
    \/ (\E message \in StreamMessages : StreamEvent(message))
          /\ UNCHANGED <<pipeVars, filterVars, taskVars>>
    \/ (\E message \in ResultMessages : ResultEvent(message))
          /\ UNCHANGED <<pipeVars, filterVars, taskVars>>
    \/ StreamEnd /\ UNCHANGED <<pipeVars, filterVars, taskVars>>
    \/ StreamError /\ UNCHANGED <<pipeVars, filterVars, taskVars>>
    \/ Cancel /\ UNCHANGED <<pipeVars, filterVars, taskVars>>

SpecAgent == InitAgent /\ [][NextAgent]_vars

\* -------------------------------------- process_instance: one task, git by git

\* How a git command run by subprocess.run(check=True, timeout=...) ends:
\* exit status 0, CalledProcessError, TimeoutExpired.
GitOutcomes == {"ok", "nonzero", "timeout"}

\* Every command succeeds, whatever its exit status.
SucceedsAlways(outcome) == TRUE

\* utils.py 52-65 and 73-85: check=True and the timeout raise on anything but
\* exit status 0 in time.
Succeeds(outcome) == outcome = "ok"

\* The working copies a task may find at repo_dir: none, a directory that is
\* no repository, a repository at the base commit or elsewhere, with or
\* without untracked files.
DirStates ==
    {Absent, [exists |-> TRUE, head |-> "none", untracked |-> TRUE]}
        \cup [exists : {TRUE}, head : {"base", "other"}, untracked : BOOLEAN]

Ran(cmd, outcome) == [cmd |-> cmd, outcome |-> outcome]

\* The session is started although clone_repo returned None.
RepoDirIsNoneNever(dir) == FALSE

\* cli.py 50: `if repo_dir is None`.
RepoDirIsNone(dir) == dir = "None"

\* cli.py 47-67: the task leaves `async with semaphore` by return or by
\* exception; the slot is released.
TaskLeaves(ret) ==
    /\ t_ret' = ret
    /\ t_pc' = IF ret.kind = "raised" THEN "raised" ELSE "returned"
    /\ t_slot' = FALSE

\* cli.py 49-54: clone_repo returned; without a directory the task returns
\* the placeholder, with one it calls run_agent.
AfterClone(dir) ==
    /\ t_repo_dir' = dir
    /\ IF RepoDirIsNone(dir)
       THEN /\ TaskLeaves(Return("result", <<t_instance.instance_id,
                                               Placeholder(t_instance.instance_id)>>))
            /\ UNCHANGED t_sessions
       ELSE /\ t_pc' = "session"
            /\ t_sessions' = t_sessions + 1
            /\ UNCHANGED <<t_ret, t_slot>>

\* utils.py 66-68: the except clause of the existing-copy path;
\* shutil.rmtree(ignore_errors=True) removes the directory or leaves it.
Discard(cmd, outcome, removed) ==
    /\ t_git' = t_git \o <<Ran(cmd, outcome), Ran("rmtree", IF removed THEN "ok" ELSE "nonzero")>>
    /\ t_dir' = IF removed THEN Absent ELSE t_dir
    /\ t_pc' = "clone"
    /\ UNCHANGED <<t_repo_dir, t_slot, t_sessions, t_ret>>

\* cli.py 46-49 and utils.py 44-50: the slot is taken and clone_repo called;
\* it raises KeyError on an instance without repo or base_commit.
TaskEnter ==
    /\ t_pc = "gate"
    /\ IF ~t_instance.wellformed
       THEN /\ TaskLeaves(Raised)
            /\ UNCHANGED <<t_dir, t_git, t_repo_dir, t_sessions>>
       ELSE /\ t_slot' = TRUE
            /\ t_pc' = IF t_dir.exists THEN "reset" ELSE "clone"
            /\ UNCHANGED <<t_dir, t_git, t_repo_dir, t_sessions, t_ret>>
    /\ UNCHANGED t_instance

\* utils.py 52-58: git reset --hard base_commit in the existing directory.
GitReset(outcome, removed) ==
    /\ t_pc = "reset"
    /\ outcome = "ok" => t_dir.head # "none"
    /\ IF Succeeds(outcome)
       THEN /\ t_git' = Append(t_git, Ran("reset", outcome))
            /\ t_dir' = IF outcome = "ok" THEN [t_dir EXCEPT !.head = "base"] ELSE t_dir
            /\ t_pc' = "clean"
            /\ UNCHANGED <<t_repo_dir, t_slot, t_sessions, t_ret>>
       ELSE Discard("reset", outcome, removed)
    /\ UNCHANGED t_instance

\* utils.py 59-65: git clean -fd, then the directory is returned.
GitClean(outcome, removed) ==
    /\ t_pc = "clean"
    /\ outcome = "ok" => t_dir.head # "none"
    /\ IF Succeeds(outcome)
       THEN /\ t_git' = Append(t_git, Ran("clean", outcome))
            /\ t_dir' = IF outcome = "ok" THEN [t_dir EXCEPT !.untracked = FALSE] ELSE t_dir
            /\ AfterClone("path")
       ELSE Discard("clean", outcome, removed)
    /\ UNCHANGED t_instance

\* utils.py 71-78 and 87-89: git clone into repo_dir; it cannot succeed into
\* a directory that is still there, and a clone that fails may leave a
\* partial directory behind.
GitClone(outcome, partial) ==
    /\ t_pc = "clone"
    /\ outcome = "ok" => ~t_dir.exists
    /\ t_git' = Append(t_git, Ran("clone", outcome))
    /\ IF Succeeds(outcome)
       THEN /\ t_dir' = IF outcome = "ok"
                        THEN [exists |-> TRUE, head |-> "other", untracked |-> FALSE]
                        ELSE t_dir
            /\ t_pc' = "reset_fresh"
            /\ UNCHANGED <<t_repo_dir, t_slot, t_sessions, t_ret>>
       ELSE /\ t_dir' = IF partial /\ ~t_dir.exists
                        THEN [exists |-> TRUE, head |-> "none", untracked |-> TRUE]
                        ELSE t_dir
            /\ AfterClone("None")
    /\ UNCHANGED t_instance

\* utils.py 79-89: git reset --hard base_commit in the fresh clone, then the
\* directory is returned.
GitResetFresh(outcome) ==
    /\ t_pc = "reset_fresh"
    /\ outcome = "ok" => t_dir.head # "none"
    /\ t_git' = Append(t_git, Ran("reset", outcome))
    /\ t_dir' = IF outcome = "ok" THEN [t_dir EXCEPT !.head = "base"] ELSE t_dir
    /\ AfterClone(IF Succeeds(outcome) THEN "path" ELSE "None")
    /\ UNCHANGED t_instance

\* cli.py 54-67: run_agent ends and the task returns its result, or run_agent
\* raises.
SessionEnd(outcome) ==
    /\ t_pc = "session"
    /\ TaskLeaves(IF outcome.kind = "raised" THEN Raised
                  ELSE Return("result", <<t_instance.instance_id,
                                           ProcessResult(outcome, t_instance.instance_id)>>))
    /\ UNCHANGED <<t_instance, t_dir, t_git, t_repo_dir, t_sessions>>

InitTask ==
    /\ dataset = InstancesOf(<<>>)
    /\ PipeIdle
    /\ FilterIdle
    /\ AgentIdle
    /\ t_instance \in {Instance(1, wf) : wf \in BOOLEAN}
    /\ t_dir \in DirStates
    /\ t_pc = "gate"
    /\ t_git = <<>>
    /\ t_repo_dir = "unbound"
    /\ t_slot = FALSE
    /\ t_sessions = 0
    /\ t_ret = Pending

NextTask ==
    \/ TaskEnter /\ UNCHANGED <<pipeVars, filterVars, agentVars>>
    \/ (\E o \in GitOutcomes, r \in BOOLEAN : GitReset(o, r))
          /\ UNCHANGED <<pipeVars, filterVars, agentVars>>
    \/ (\E o \in GitOutcomes, r \in BOOLEAN : GitClean(o, r))
          /\ UNCHANGED <<pipeVars, filterVars, agentVars>>
    \/ (\E o \in GitOutcomes, p \in BOOLEAN : GitClone(o, p))
          /\ UNCHANGED <<pipeVars, filterVars, agentVars>>
    \/ (\E o \in GitOutcomes : GitResetFresh(o))
          /\ UNCHANGED <<pipeVars, filterVars, agentVars>>
    \/ (\E o \in AgentOutcomes : SessionEnd(o))
          /\ UNCHANGED <<pipeVars, filterVars, agentVars>>

SpecTask == InitTask /\ [][NextTask]_vars

\* ------------------------------------------- the pipeline under fairness

\* What a session that ends with success or with a handled failure gives its
\* task: a configuration or None.
HandledOutcomes == PipeOutcomes \ {Raised}

\* Every instance has the fields clone_repo indexes.
InitProgress ==
    /\ dataset = [n \in InstIds |-> <<n, Instance(n, TRUE)>>]
    /\ PipeIdle
    /\ FilterIdle
    /\ AgentIdle
    /\ TaskIdle

NextProgress ==
    \/ \E c \in RunConfigs : StartRun(c) /\ UNCHANGED <<filterVars, agentVars, taskVars>>
    \/ \E i \in InstIds : Admit(i) /\ UNCHANGED <<filterVars, agentVars, taskVars>>
    \/ \E i \in InstIds, o \in CloneOutcomes :
          CloneDone(i, o) /\ UNCHANGED <<filterVars, agentVars, taskVars>>
    \/ \E i \in InstIds, o \in HandledOutcomes :
          AgentDone(i, o) /\ UNCHANGED <<filterVars, agentVars, taskVars>>
    \/ Collect /\ UNCHANGED <<filterVars, agentVars, taskVars>>
    \/ WriteChunk /\ UNCHANGED <<filterVars, agentVars, taskVars>>
    \/ WriteClose /\ UNCHANGED <<filterVars, agentVars, taskVars>>

\* The event loop runs every task that is ready: a waiter the semaphore has
\* woken, the collector when a task is done, the synchronous write.  The
\* executor's clone_repo and the session end (git's timeouts, the runtime's
\* turn budget).
Fairness ==
    /\ \A i \in InstIds :
          /\ WF_vars(Admit(i) /\ UNCHANGED <<filterVars, agentVars, taskVars>>)
          /\ WF_vars((\E o \in CloneOutcomes : CloneDone(i, o))
                        /\ UNCHANGED <<filterVars, agentVars, taskVars>>)
          /\ WF_vars((\E o \in HandledOutcomes : AgentDone(i, o))
                        /\ UNCHANGED <<filterVars, agentVars, taskVars>>)
    /\ WF_vars(Collect /\ UNCHANGED <<filterVars, agentVars, taskVars>>)
    /\ WF_vars(WriteChunk /\ UNCHANGED <<filterVars, agentVars, taskVars>>)
    /\ WF_vars(WriteClose /\ UNCHANGED <<filterVars, agentVars, taskVars>>)

SpecProgress == InitProgress /\ [][NextProgress]_vars /\ Fairness

\* ================================================================ claims

\* The output file read back as a dict.
FileDict == JsonLoad(outfile.entries)

\* The keys the output file holds, as written.
FileKeys == {outfile.entries[n].key : n \in 1..Len(outfile.entries)}

Collected == {i \in InstIds : pc[i] = "collected"}

\* C1: in every state of a run at most max_workers tasks are inside the
\* semaphore-guarded body (repository preparation or agent session), the
\* semaphore's value is the number of free slots, and every other task that
\* has not yet left the body is waiting at the gate.
C1_ConcurrencyBound ==
    pipe \in {"running", "writing"} =>
        /\ Cardinality(InBody) <= cfg.max_workers
        /\ sem = cfg.max_workers - Cardinality(InBody)
        /\ \A i \in Scheduled \ InBody :
              pc[i] \notin {"finished", "raised", "collected"} => pc[i] = "waiting"

\* C1's case: the body is full and a task waits at the gate.
C1_Witness ==
    /\ pipe = "running"
    /\ Cardinality(InBody) = cfg.max_workers
    /\ \E i \in InstIds : pc[i] = "waiting"

\* C2: whenever the process is killed, the output file on disk is a complete,
\* parseable document: never empty, truncated or partially written.
C2_CrashSafe ==
    (pipe = "killed" /\ outfile.exists) => outfile.complete

\* C3: once the collector loop has handled the k-th completion (k >= 1) the
\* output file is complete and reads back as all_results, whose keys are the
\* ids loaded on resume plus the ids of the k collected tasks, one entry per
\* id; the file was opened once per completion.
C3_WrittenPerCompletion ==
    (pipe \in {"running", "done", "aborted"} /\ completed >= 1) =>
        /\ outfile.exists /\ outfile.complete
        /\ FileDict = all_results
        /\ KeySet(all_results) = KeySet(existing) \cup Collected
        /\ Len(all_results) = Cardinality(KeySet(all_results))
        /\ Len(outfile.entries) = Cardinality(FileKeys)
        /\ completed = Cardinality(Collected)
        /\ writes = completed

\* C3's case: a resumed run has collected every task it scheduled.
C3_Witness ==
    /\ pipe = "done"
    /\ existing # <<>>
    /\ completed >= 1

\* C4 as claimed: no task is admitted past the gate while another task has
\* finished its body and its result is not yet in the output file (a task is
\* "finished" from its return until the collector takes its result).
C4_RecordedBeforeNextBegins ==
    [][(\E i \in InstIds : pc[i] = "waiting" /\ pc'[i] = "clone")
          => \A j \in InstIds : pc[j] # "finished"]_vars

\* C4 as amended: every collected result is durably recorded before the
\* collector takes the next completion or the run ends: while the collector
\* waits for a completion, and when the loop has ended, the result of every
\* collected task is in the complete output file under its id.
C4_RecordedBeforeNextCollected ==
    pipe \in {"running", "done", "aborted"} =>
        \A j \in Collected :
            /\ outfile.complete
            /\ j \in KeySet(FileDict)
            /\ DictGet(FileDict, j) = Get(res[j])

\* C4's case: a placeholder result is recorded and the collector waits for the
\* next completion while another task is inside the body.
C4_Witness ==
    /\ pipe = "running"
    /\ \E j \in Collected : DOMAIN Get(res[j]) = {"instance_id"}
    /\ InBody # {}

\* C5: a task that raises does not abort the run: no run ends by a task's
\* exception, no task is cancelled, and a run that ends has every scheduled
\* instance that did not raise in the output file.
C5_TaskIsolation ==
    /\ pipe # "aborted"
    /\ \A i \in InstIds : pc[i] # "cancelled"
    /\ pipe = "done" => \A i \in Scheduled : pc[i] # "raised" => i \in FileKeys

\* C6: with resume set and a previous output file, exactly the filtered
\* instances whose ids are not keys of the file are scheduled; without resume
\* every filtered instance is scheduled; and throughout the run no task exists
\* for a loaded id.  (Until the run's first write the file is as the run found
\* it.)
C6_ResumeExclusion ==
    /\ (pipe \in {"running", "all_processed", "no_instances"} /\ writes = 0) =>
          Scheduled = KeySet(FilterInstances(dataset, cfg))
                        \ (IF cfg.resume /\ outfile.exists THEN FileKeys ELSE {})
    /\ pipe \in {"running", "writing", "done", "aborted"} =>
          \A k \in KeySet(existing) : pc[k] = "none"

\* C6's case: a resumed run found some filtered ids in the file and scheduled
\* the others.
C6_Witness ==
    /\ pipe = "running"
    /\ writes = 0
    /\ cfg.resume
    /\ FileKeys \cap KeySet(FilterInstances(dataset, cfg)) # {}
    /\ Scheduled # {}

\* C7: a run resumed on the file an interrupted run left loads exactly that
\* file, and after each of its writes and at its end every loaded id still
\* maps to the loaded value, the loaded entries standing first in the file as
\* they were; only the remaining instances were processed.
C7_ResumeIdempotence ==
    /\ (pipe = "running" /\ writes = 0 /\ cfg.resume /\ outfile.exists) =>
          /\ outfile.complete
          /\ JsonDump(existing) = outfile.entries
    /\ (pipe \in {"running", "done", "aborted"} /\ cfg.resume /\ writes >= 1) =>
          /\ outfile.complete
          /\ SubSeq(outfile.entries, 1, Len(existing)) = JsonDump(existing)
          /\ \A k \in KeySet(existing) :
                /\ DictGet(FileDict, k) = DictGet(existing, k)
                /\ pc[k] = "none"
          /\ Collected \cap KeySet(existing) = {}

\* C7's case: the resumed run loaded results, processed the rest and ended.
C7_Witness ==
    /\ pipe = "done"
    /\ cfg.resume
    /\ existing # <<>>
    /\ writes >= 1
    /\ Len(all_results) > Len(existing)

\* The keys at the 1-based positions lo..hi of a sequence, in its order.
Positions(keys, lo, hi) ==
    LET a == Max(lo, 1)
        b == Min(hi, Len(keys))
    IN  IF a <= b THEN SubSeq(keys, a, b) ELSE <<>>

\* The keys an allowlist leaves, in the sequence's order.
Allowed(keys, ids) ==
    IF IsNone(ids) THEN keys ELSE SelectSeq(keys, LAMBDA k : k \in Get(ids))

\* C8: for every id sequence, allowlist, start and end, the selected ids are
\* those at the 1-based positions start..end of the allowlist-filtered
\* sequence, in its order; an omitted start is position 1, an omitted end the
\* last position.
C8_SliceSemantics ==
    ~IsNone(f_selected) =>
        LET allowed == Allowed(DictKeys(f_instances), f_cfg.instance_ids)
            lo == IF IsNone(f_cfg.start) THEN 1 ELSE Get(f_cfg.start)
            hi == IF IsNone(f_cfg.end) THEN Len(allowed) ELSE Get(f_cfg.end)
        IN  DictKeys(Get(f_selected)) = Positions(allowed, lo, hi)

\* The ids a, b, c, d, e are 1, 2, 3, 4, 5.
ExampleApplied(ids) ==
    /\ ~IsNone(f_selected)
    /\ DictKeys(f_instances) = <<1, 2, 3, 4, 5>>
    /\ f_cfg = FilterCfg(ids, Some(2), Some(4))

\* C9 as claimed: on [a,b,c,d,e], start=2 and end=4 select b, c, d, and with
\* the allowlist {b,d,e} they select b, d.
C9_SliceExampleAsClaimed ==
    /\ ExampleApplied(NoneVal) => DictKeys(Get(f_selected)) = <<2, 3, 4>>
    /\ ExampleApplied(Some({2, 4, 5})) => DictKeys(Get(f_selected)) = <<2, 4>>

\* C9 as amended: on [a,b,c,d,e], start=2 and end=4 select b, c, d, and with
\* the allowlist {b,d,e} they select d, e: the positions 2..4 of the filtered
\* sequence [b,d,e].  Each selected id keeps its instance.
C9_SliceExample ==
    /\ ExampleApplied(NoneVal) => DictKeys(Get(f_selected)) = <<2, 3, 4>>
    /\ ExampleApplied(Some({2, 4, 5})) => DictKeys(Get(f_selected)) = <<4, 5>>
    /\ ~IsNone(f_selected) =>
          \A k \in KeySet(Get(f_selected)) :
              DictGet(Get(f_selected), k) = DictGet(f_instances, k)

\* C9's case: the slice was applied with the allowlist.
C9_Witness == ExampleApplied(Some({2, 4, 5}))

\* C10: run_agent never raises: with an SDK that imports, a well-formed
\* instance and a usable log dir, whatever the stream delivers and whatever
\* the final assistant text holds, the session returns a validated
\* configuration or None.
C10_NeverRaises ==
    (a_pc \in {"returned", "caught"} /\ a_env.sdk /\ a_env.instance.wellformed
        /\ a_env.log # "makedirs_fails")
        => a_ret.kind \in {"config", "none"}

\* The record extraction gives for the recorded assistant text, if any.
Extracted == IF IsNone(a_text) THEN NoneVal ELSE ParseOutput(Get(a_text))

\* The record lacks one of the three fields, or its setup_scripts has no
\* setup_repo.sh key.
LacksRequired(r) ==
    \/ {"dockerfile", "eval_script", "setup_scripts"} \ DOMAIN r # {}
    \/ ~(r.setup_scripts.t = "dict" /\ SetupKey \in Elems(r.setup_scripts))

\* C12: when the record extracted from the final assistant text lacks one of
\* dockerfile, eval_script, setup_scripts, or its setup_scripts lacks the key
\* setup_repo.sh, run_agent returns None.
C12_ValidationGate ==
    (a_pc \in {"returned", "caught"} /\ ~IsNone(Extracted)
        /\ LacksRequired(Get(Extracted)))
        => a_ret.kind = "none"

\* The session left the stream without an exception and without an
\* error-flagged result, and extraction gave a record that has the three
\* fields and the setup_repo.sh key.
ValidatedRecord ==
    /\ a_pc = "returned"
    /\ IsNone(a_result) \/ ~Get(a_result).is_error
    /\ ~IsNone(Extracted)
    /\ ~LacksRequired(Get(Extracted))

ScriptHasMarker(r) ==
    r.eval_script.t \in {"str", "list", "dict"} /\ Marker \in Elems(r.eval_script)

\* The script is the original, or a prefix of it, followed by the snippet.
SnippetAppended(original, script) ==
    LET n == Len(script.v) - Len(Snippet)
    IN  /\ script.t = "str"
        /\ n >= 0
        /\ SubSeq(script.v, n + 1, Len(script.v)) = Snippet
        /\ n <= Len(original.v)
        /\ SubSeq(script.v, 1, n) = SubSeq(original.v, 1, n)

\* C13: for a validated record the session is no failure and the returned
\* eval_script contains the marker: a script that has it is returned
\* unmodified with the rest of the record, a script that lacks it is returned
\* with the snippet appended, and repairing the returned record again changes
\* nothing.
C13_MarkerRepair ==
    ValidatedRecord =>
        LET r == Get(Extracted)
        IN  /\ a_ret.kind = "config"
            /\ Marker \in Elems(a_ret.value.eval_script)
            /\ ScriptHasMarker(r) => a_ret.value = r
            /\ ~ScriptHasMarker(r) =>
                  /\ SnippetAppended(r.eval_script, a_ret.value.eval_script)
                  /\ a_ret.value = [r EXCEPT !.eval_script = a_ret.value.eval_script]
            /\ Validate(a_ret.value) = a_ret

\* The positions of a text's segments of the given kinds.
Where(text, kinds) == {n \in 1..Len(text) : text[n].seg \in kinds}

\* The least position of a non-empty set of positions.
First(ps) == CHOOSE n \in ps : \A k \in ps : n <= k

\* The record the four strategies give in their order of priority: the tagged
\* block, the first fenced block, the whole text, the first opening brace at
\* which a record parses.
ByPriority(text) ==
    LET tagged == Where(text, {"wrapped"})
        fenced == Where(text, {"wrapped", "fenced"})
        parsing == {n \in Where(text, {"wrapped", "fenced", "object"}) : text[n].ok}
    IN  IF tagged # {} /\ text[First(tagged)].ok THEN Some(text[First(tagged)].rec)
        ELSE IF fenced # {} /\ text[First(fenced)].ok THEN Some(text[First(fenced)].rec)
        ELSE IF Len(text) = 1 /\ text[1].seg = "object" /\ text[1].ok THEN Some(text[1].rec)
        ELSE IF parsing # {} THEN Some(text[First(parsing)].rec)
        ELSE NoneVal

\* C14: the record run_agent validates is the one the strategies give in the
\* order tagged block, first fenced block, whole text, brace scan: the first
\* candidate that parses to a record; with no such candidate run_agent
\* returns None.
C14_ExtractionPriority ==
    (a_pc = "returned" /\ ~IsNone(a_text)
        /\ (IsNone(a_result) \/ ~Get(a_result).is_error)) =>
        LET claimed == ByPriority(Get(a_text))
        IN  a_ret = IF IsNone(claimed) THEN ReturnedNone ELSE Validate(Get(claimed))

\* C14's case: a tagged block follows a fenced block holding another record,
\* and the tagged block's record is returned.
C14_Witness ==
    /\ a_pc = "returned"
    /\ a_text = Some(<<Fenced(RecAlt), Wrapped(RecOk)>>)
    /\ a_ret = Return("config", RecOk)

\* The last command clone_repo ran.
LastRan == t_git[Len(t_git)]

\* The fresh clone, or the reset that follows it, exited non-zero or timed
\* out.  (A failure on an existing copy is followed by the discard of the
\* directory, so the last command is then never a reset.)
PreparationFailed ==
    /\ t_git # <<>>
    /\ LastRan.cmd \in {"clone", "reset"}
    /\ LastRan.outcome # "ok"

\* C15: when repository preparation fails, clone_repo returns None, no agent
\* session is started for the instance, the task returns the placeholder
\* with instance_id alone instead of raising, and its gate slot is released.
C15_CloneFailure ==
    (PreparationFailed \/ t_repo_dir = "None") =>
        /\ PreparationFailed
        /\ t_repo_dir = "None"
        /\ t_sessions = 0
        /\ t_pc = "returned"
        /\ t_ret = Return("result", <<t_instance.instance_id,
                                       [instance_id |-> t_instance.instance_id]>>)
        /\ ~t_slot

\* C15's case: the fresh clone succeeded and the reset that follows timed out.
C15_Witness ==
    /\ PreparationFailed
    /\ LastRan = Ran("reset", "timeout")
    /\ t_pc = "returned"

\* The positions of the resets clone_repo ran.
Resets == {n \in 1..Len(t_git) : t_git[n].cmd = "reset"}

\* The last reset succeeded, and only a successful clean followed it.
LastResetSucceeded ==
    /\ Resets # {}
    /\ LET last == CHOOSE n \in Resets : \A k \in Resets : k <= n
       IN  /\ t_git[last].outcome = "ok"
           /\ \A k \in last + 1..Len(t_git) : t_git[k] = Ran("clean", "ok")

\* C16: a session is started only after a successful hard reset to the base
\* commit in the same task, and clone_repo returns a directory only then; on
\* an existing copy the reset comes first and the clean after it; when either
\* fails the directory is discarded and a fresh clone attempted, and a clone
\* that succeeds is followed by a reset.
C16_ResetBeforeSession ==
    /\ (t_sessions > 0 \/ t_repo_dir = "path") =>
          /\ LastResetSucceeded
          /\ t_dir.head = "base"
          /\ t_repo_dir = "path"
          /\ t_sessions = 1
    /\ \A n \in 1..Len(t_git) :
          /\ t_git[n].cmd = "clean" => n = 2 /\ t_git[1] = Ran("reset", "ok")
          /\ (t_git[n].outcome # "ok" /\ (t_git[n].cmd = "clean" \/ (t_git[n].cmd = "reset" /\ n = 1))) =>
                /\ Len(t_git) > n /\ t_git[n + 1].cmd = "rmtree"
                /\ t_pc # "clone" => Len(t_git) > n + 1 /\ t_git[n + 2].cmd = "clone"
          /\ (t_git[n] = Ran("clone", "ok") /\ t_pc # "reset_fresh") =>
                Len(t_git) > n /\ t_git[n + 1].cmd = "reset"
          /\ t_git[n].cmd = "clone" => n = 1 \/ t_git[n - 1].cmd = "rmtree"

\* C16's case: the clean of an existing copy failed, the directory was
\* discarded, and the session started on a fresh clone reset to the base
\* commit.
C16_Witness ==
    /\ t_pc = "session"
    /\ Len(t_git) = 5
    /\ t_git[2].cmd = "clean" /\ t_git[2].outcome # "ok"
    /\ t_git[4] = Ran("clone", "ok")
    /\ t_git[5] = Ran("reset", "ok")

\* run_agent has been left: by return, from its except clause, or by an
\* exception passing through it.
SessionOver == a_pc \in {"returned", "caught", "cancelled"}

\* The records of the log of the given type.
LogRecords(type) == {n \in 1..Len(a_log.records) : a_log.records[n].type = type}

\* C17: once run_agent has been left, a trajectory log that was opened is
\* closed, with one header, its first record, and one footer, its last.
C17_LogClosedOnce ==
    (SessionOver /\ a_log.state # "none") =>
        /\ a_log.state = "closed"
        /\ LogRecords("header") = {1}
        /\ LogRecords("footer") = {Len(a_log.records)}

\* C18: results are collected and persisted in the order the tasks finish: a
\* task that leaves its body joins the end of the completion queue, the
\* collector takes the task that finished earliest among those not yet
\* collected, whatever the state of the tasks submitted before it, adds its
\* result at the end of the result mapping and opens the output file for it;
\* what is written is the mapping in that order.
C18_CompletionOrder ==
    /\ [](pipe = "writing" =>
            outfile.entries = SubSeq(JsonDump(all_results), 1, Len(outfile.entries)))
    /\ [][/\ \A i \in InstIds :
               (pc[i] \in {"clone", "agent"} /\ pc'[i] \in {"finished", "raised"}) =>
                   doneq' = Append(doneq, i)
          /\ \A i \in InstIds :
               (pc[i] = "finished" /\ pc'[i] = "collected") =>
                   /\ i = Head(doneq)
                   /\ doneq' = Tail(doneq)
                   /\ all_results' = Append(all_results, <<i, Get(res[i])>>)
                   /\ pipe' = "writing"
                   /\ outfile' = Truncated]_vars

\* C18's case: the task submitted last finished first, and its result is in
\* the complete output file while the task submitted first is still in its
\* body.
C18_Witness ==
    /\ pipe = "running"
    /\ pc[NumInst] = "collected"
    /\ outfile.complete
    /\ FileKeys = {NumInst}
    /\ pc[1] \in {"clone", "agent"}

\* A record of the shape the output file is to hold: the three fields, the
\* script a string with the marker, the setup scripts an object with the
\* setup_repo.sh key.
WellShaped(e) ==
    /\ {"dockerfile", "eval_script", "setup_scripts"} \subseteq DOMAIN e
    /\ e.eval_script.t = "str" /\ Marker \in Elems(e.eval_script)
    /\ e.setup_scripts.t = "dict" /\ SetupKey \in Elems(e.setup_scripts)

\* C11: the entry a task returns for the result mapping is stored under the
\* instance's id and holds that id as instance_id; it is the placeholder with
\* instance_id alone (always so when repository preparation failed), or a
\* record with dockerfile, an eval_script containing the marker and
\* setup_scripts containing the key setup_repo.sh.
C11_RecordShape ==
    t_pc = "returned" =>
        LET key == t_ret.value[1]
            entry == t_ret.value[2]
        IN  /\ key = t_instance.instance_id
            /\ entry.instance_id = key
            /\ DOMAIN entry = {"instance_id"} \/ WellShaped(entry)
            /\ t_repo_dir = "None" => DOMAIN entry = {"instance_id"}

\* The start of a run: run_pipeline is called in the states in which no run
\* is under way, and the step taken there is its start.  With nothing to
\* process the run ends at once, no task created and the file untouched.
StartsWithNothing ==
    pipe \in Ended \cup {"idle"} =>
        LET filtered == FilterInstances(dataset, cfg')
            nothing ==
                \/ filtered = <<>>
                \/ /\ cfg'.resume
                   /\ outfile.exists /\ outfile.complete
                   /\ KeySet(filtered) \subseteq FileKeys
        IN  /\ nothing <=> pipe' \in {"no_instances", "all_processed"}
            /\ nothing =>
                  /\ outfile' = outfile
                  /\ \A i \in InstIds : pc'[i] = "none"
                  /\ writes' = 0

\* C19: a run started with nothing to process, because the filters leave no
\* instance or because resume finds every filtered instance in the output
\* file, ends at once: no task is created and the output file is not opened;
\* it stays as it was, unchanged if it exists and missing if it does not.
C19_NothingToProcess == [][StartsWithNothing]_vars

\* C19's case: a resumed run found every filtered instance in the output
\* file and ended without a task or a write.
C19_Witness ==
    /\ pipe = "all_processed"
    /\ cfg.resume
    /\ outfile.complete
    /\ KeySet(FilterInstances(dataset, cfg)) # {}
    /\ KeySet(FilterInstances(dataset, cfg)) \subseteq FileKeys
    /\ writes = 0

\* The records of the log that are neither header, footer nor error record.
EventRecords ==
    SelectSeq(a_log.records, LAMBDA r : r.type \notin {"header", "footer", "error"})

\* C20: the trajectory log, when there is one, holds a record for every event
\* the runtime delivered, of whatever kind, in the order of delivery.
C20_EveryEventLogged ==
    a_log.state # "none" =>
        /\ Len(EventRecords) = Len(a_events)
        /\ \A n \in 1..Len(EventRecords) :
              EventRecords[n] = [type |-> a_events[n], n |-> n]

\* The events delivered before the last one that are assistant turns.
TurnsBefore(events) ==
    Cardinality({n \in 1..Len(events) - 1 : events[n] = "assistant"})

\* C21: a result event is terminal for the session.  The step that consumes
\* it leaves the turn counter and the recorded assistant text as they were
\* and leaves the loop; from then on no event is consumed, logged or counted:
\* the result is the last event and the last event record of the log, and
\* the turn counter counts the assistant turns before it.
C21_ResultTerminal ==
    /\ [](~IsNone(a_result) =>
            /\ a_pc = "returned"
            /\ a_events[Len(a_events)] = "result"
            /\ \A n \in 1..Len(a_events) - 1 : a_events[n] # "result"
            /\ a_turns = TurnsBefore(a_events)
            /\ a_log.state # "none" =>
                  /\ a_log.state = "closed"
                  /\ a_log.records[Len(a_log.records) - 1]
                        = [type |-> "result", n |-> Len(a_events)])
    /\ [][(IsNone(a_result) /\ ~IsNone(a_result')) =>
              /\ a_events' = Append(a_events, "result")
              /\ UNCHANGED <<a_turns, a_text>>]_vars
    /\ [][~IsNone(a_result) =>
              UNCHANGED <<a_events, a_log, a_turns, a_text, a_result>>]_vars

\* C21's case: the result event arrived after an assistant turn with text,
\* the stream having room for further events, and the session is over.
C21_Witness ==
    /\ ~IsNone(a_result)
    /\ a_pc = "returned"
    /\ Len(a_events) < MaxEvents
    /\ a_turns >= 1
    /\ ~IsNone(a_text)
    /\ a_log.state = "closed"

\* C22: a session whose stream ended with a result event flagged as an error
\* returns None, whatever the last recorded assistant text holds.
C22_ErrorResult ==
    (a_pc = "returned" /\ ~IsNone(a_result) /\ Get(a_result).is_error) =>
        a_ret = ReturnedNone

\* C22's case: the recorded text holds a record that passes extraction and
\* validation, and the error-flagged result made the session return None.
C22_Witness ==
    /\ a_pc = "returned"
    /\ ~IsNone(a_result) /\ Get(a_result).is_error
    /\ ~IsNone(a_text)
    /\ ParseOutput(Get(a_text)) = Some(RecOk)
    /\ Validate(RecOk) = Return("config", RecOk)
    /\ a_ret = ReturnedNone

\* The log after the except clause: what it held, then the error record and
\* the footer, closed; no log stays no log.
ErrorLogged(before, after, n) ==
    IF before.state = "none" THEN after = before
    ELSE /\ before.state = "open"
         /\ after.state = "closed"
         /\ after.records = before.records
                \o <<[type |-> "error", n |-> n + 1], [type |-> "footer", n |-> n + 2]>>

\* C23: when the runtime raises an error at any point of the stream, the
\* session fails: the error record is appended to the log after the records
\* already there and before the footer, the log is closed, and run_agent
\* returns None, whatever assistant text was recorded.
C23_RuntimeError ==
    /\ [](a_pc = "caught" =>
            /\ a_ret = ReturnedNone
            /\ a_log.state # "none" =>
                  /\ a_log.state = "closed"
                  /\ LogRecords("error") = {Len(a_log.records) - 1}
                  /\ LogRecords("footer") = {Len(a_log.records)})
    /\ [][(a_pc # "caught" /\ a_pc' = "caught") =>
              /\ a_pc = "streaming"
              /\ ErrorLogged(a_log, a_log', Len(a_events))
              /\ UNCHANGED <<a_events, a_text, a_turns, a_result>>]_vars

\* C23's case: the runtime raised after an assistant turn whose text holds a
\* record that passes extraction and validation; the log holds the turn, the
\* error record and the footer.
C23_Witness ==
    /\ a_pc = "caught"
    /\ ~IsNone(a_text)
    /\ ParseOutput(Get(a_text)) = Some(RecOk)
    /\ a_ret = ReturnedNone
    /\ a_log.state = "closed"
    /\ Len(a_log.records) = 4
    /\ a_log.records[2].type = "assistant"

\* Whether an assistant turn holds a free-text unit.
HasFreeText(content) == \E n \in 1..Len(content) : content[n].type = "text"

RECURSIVE TurnText(_)
\* The free text of an assistant turn: that of its free-text units, in order.
TurnText(content) ==
    IF content = <<>> THEN <<>>
    ELSE (IF content[1].type = "text" THEN content[1].text ELSE <<>>)
            \o TurnText(Tail(content))

\* The session was started and its stream ended without a result event.
EndedWithoutResult ==
    /\ a_pc = "returned"
    /\ IsNone(a_result)
    /\ a_env.sdk /\ a_env.instance.wellformed /\ a_env.log # "makedirs_fails"

\* C24: the recorded assistant text is none at the start, becomes the free
\* text of every assistant turn that holds free text, and is left as it is by
\* every other event, an assistant turn of tool invocations only included;
\* when the stream ends without a result event, run_agent returns what
\* extraction and validation give for the recorded text, and None when no
\* text was recorded.
C24_NoResultFallback ==
    /\ [](a_pc = "idle" => IsNone(a_text))
    /\ [][a_text' =
              IF a_events' # a_events /\ a_message'.kind = "assistant"
                    /\ HasFreeText(a_message'.content)
              THEN Some(TurnText(a_message'.content))
              ELSE a_text]_vars
    /\ [](EndedWithoutResult =>
            a_ret = IF IsNone(a_text) \/ IsNone(ByPriority(Get(a_text)))
                    THEN ReturnedNone
                    ELSE Validate(Get(ByPriority(Get(a_text)))))

\* C24's case: a turn with free text was followed by a turn of tool
\* invocations only, the stream ended without a result event, and the
\* session returned the configuration of the recorded text.
C24_Witness ==
    /\ EndedWithoutResult
    /\ a_events = <<"assistant", "assistant">>
    /\ a_message.content = <<ToolUseBlock>>
    /\ ~IsNone(a_text)
    /\ a_ret.kind = "config"

\* The text of the last free-text unit of an assistant turn.
LastUnitText(content) ==
    LET units == SelectSeq(content, LAMBDA block : block.type = "text")
    IN  units[Len(units)].text

\* C25: after an assistant turn that holds free text, the recorded text is
\* the text of the turn's last free-text unit, each unit having overwritten
\* what was recorded before it.
C25_LastUnitOverwrites ==
    (a_pc = "streaming" /\ a_message.kind = "assistant"
        /\ HasFreeText(a_message.content)) =>
        a_text = Some(LastUnitText(a_message.content))

\* How far a task has come: it waits at the gate, prepares the repository,
\* runs its one session, has left the body, has been collected.
Stage(state) ==
    CASE state = "none" -> 0
      [] state = "waiting" -> 1
      [] state = "clone" -> 2
      [] state = "agent" -> 3
      [] state \in {"finished", "raised", "cancelled"} -> 4
      [] state = "collected" -> 5

\* The entries of the output file under the id.
EntriesOf(i) == {n \in 1..Len(outfile.entries) : outfile.entries[n].key = i}

\* A step of a run that is under way: no task goes back to an earlier stage,
\* a session is entered only from the repository preparation of the same
\* task, and a task that is collected had left the body with a result.
NoSecondAttempt ==
    (pipe \in {"running", "writing"} /\ pipe' # "killed") =>
        \A i \in InstIds :
            /\ Stage(pc'[i]) >= Stage(pc[i])
            /\ (pc'[i] = "agent" /\ pc[i] # "agent") => pc[i] = "clone"
            /\ (pc'[i] = "collected" /\ pc[i] # "collected") => pc[i] = "finished"
            /\ pc[i] = "none" => pc'[i] = "none"

\* C26: no retry within a run.  Every scheduled instance gets at most one
\* session, whatever fails, and when the run has ended exactly one result
\* has been collected for it and stands in the output file under its id.
C26_NoRetry ==
    /\ [][NoSecondAttempt]_vars
    /\ [](pipe \in {"done", "aborted"} =>
            \A i \in Scheduled :
                /\ pc[i] = "collected"
                /\ outfile.complete
                /\ Cardinality(EntriesOf(i)) = 1
                /\ outfile.entries[CHOOSE n \in EntriesOf(i) : TRUE].value = Get(res[i]))

\* The dict holds the placeholder, instance_id alone, under the id.
HoldsPlaceholder(d, i) ==
    i \in KeySet(d) /\ DictGet(d, i) = [instance_id |-> i]

\* The task of the instance ended without a configuration: it raised, or it
\* returned the placeholder.
Failed(i) ==
    \/ pc[i] = "raised"
    \/ ~IsNone(res[i]) /\ DOMAIN Get(res[i]) = {"instance_id"}

\* A run started with resume on a file that holds a placeholder creates no
\* task for its id and takes the placeholder into its results.
ResumeSkipsPlaceholder ==
    (pipe \in Ended \cup {"idle"} /\ pipe' = "running" /\ cfg'.resume) =>
        \A i \in InstIds :
            (outfile.complete /\ HoldsPlaceholder(JsonLoad(outfile.entries), i)) =>
                pc'[i] = "none" /\ HoldsPlaceholder(all_results', i)

\* A step of a resumed run leaves every loaded placeholder without a task
\* and in the results, and in the file whenever the file is closed.
ResumeKeepsPlaceholder ==
    (pipe \in {"running", "writing"} /\ cfg.resume /\ pipe' # "killed") =>
        \A i \in InstIds :
            HoldsPlaceholder(existing, i) =>
                /\ pc'[i] = "none"
                /\ HoldsPlaceholder(all_results', i)
                /\ pipe' \in {"running", "done", "aborted"} =>
                      /\ outfile'.complete
                      /\ HoldsPlaceholder(JsonLoad(outfile'.entries), i)

\* C27: when a run has ended, every instance that failed in it has the
\* placeholder in the output file under its id; a later run with resume
\* creates no task for it, and through any number of such runs its entry
\* stays the placeholder.
C27_FailedStaysPlaceholder ==
    /\ [](pipe \in {"done", "aborted"} =>
            \A i \in Scheduled :
                Failed(i) =>
                    outfile.complete /\ HoldsPlaceholder(JsonLoad(outfile.entries), i))
    /\ [][ResumeSkipsPlaceholder]_vars
    /\ [][ResumeKeepsPlaceholder]_vars

\* A step in which a task leaves the body gives its slot back.
ReleasesSlot ==
    \A i \in InstIds :
        (pc[i] \in {"clone", "agent"} /\ pc'[i] \notin {"clone", "agent"}) =>
            sem' = sem + 1

\* C28: progress.  With every repository preparation and every session
\* ending in success or in a handled failure, for every concurrency bound a
\* task that leaves the body releases its slot; while a task waits, a slot is
\* free or a task is in the body (the gate does not deadlock); every waiting
\* task is eventually admitted; every scheduled instance eventually has its
\* entry in the complete output file; and the run ends, all slots free.
C28_Progress ==
    /\ [][ReleasesSlot]_vars
    /\ []((pipe \in {"running", "writing"} /\ \E i \in InstIds : pc[i] = "waiting") =>
            sem > 0 \/ InBody # {})
    /\ [](pipe = "done" => sem = cfg.max_workers)
    /\ \A i \in InstIds : pc[i] = "waiting" ~> pc[i] = "clone"
    /\ \A i \in InstIds :
          pc[i] = "waiting" ~> (outfile.complete /\ i \in FileKeys /\ pc[i] = "collected")
    /\ pipe = "running" ~> pipe = "done"

\* C28's case: a run with one slot for two instances has ended, both
\* instances in the output file and the slot free.
C28_Witness ==
    /\ pipe = "done"
    /\ cfg.max_workers = 1
    /\ Cardinality(Collected) = 2
    /\ Collected \subseteq FileKeys
    /\ outfile.complete
    /\ sem = 1

====
